---- MODULE Spec2Model ----
(***************************************************************************)
(* Model of nova::renderer::PipelineStorage (pipeline_storage.cpp): the    *)
(* pipeline cache (create_pipeline / get_pipeline), the pipeline interface *)
(* builder, the shader-reflection binding extractor and merger, and the    *)
(* vertex format mapper.                                                   *)
(***************************************************************************)
EXTENDS FiniteSets, Integers, Sequences, TLC

VARIABLES
    \* PipelineStorage state and its collaborators
    pipelines,            \* rx::map<rx::string, Pipeline>
    pipeline_metadatas,   \* rx::map<rx::string, PipelineMetadata>
    device_interfaces,    \* PipelineInterface objects the device has allocated (handle = index)
    device_pipelines,     \* rhi::Pipeline objects the device has allocated (handle = index)
    last,                 \* the last public call on the storage: arguments, result, calls made
    succeeded,            \* history: names for which some create_pipeline returned true
    builds,               \* number of create_pipeline calls issued so far
    \* to_rhi_vertex_format called on one reflected type
    spirv_type,           \* the argument
    format,               \* the returned VertexFieldFormat (optional: empty before the call)
    format_log,           \* the diagnostic the call logged
    \* add_resource_to_bindings called repeatedly on one pipeline's binding table
    bindings,             \* rx::map<rx::string, rhi::ResourceBindingDescription>
    add_last,             \* the last add_resource_to_bindings call: arguments and table before
    add_log,              \* error-level messages logged by the last call
    adds,                 \* number of add_resource_to_bindings calls so far
    \* get_vertex_fields called on one vertex shader
    fields_shader,        \* the argument
    fields,               \* the returned rx::vector<rhi::VertexField> (empty optional before)
    fields_log,           \* the diagnostics the call logged
    \* create_pipeline_interface called on one create-info, followed stage by stage
    interface_info,       \* the RenderpackPipelineCreateInfo
    interface_device_ok,  \* whether the device's create_pipeline_interface will succeed
    interface_stage,      \* number of shader stages whose `if` has been passed
    interface_acc,        \* the local `bindings` table, with the calls and log so far
    interface_result      \* the ntl::Result returned (empty optional before the return)

storage_vars == <<pipelines, pipeline_metadatas, device_interfaces, device_pipelines,
                  last, succeeded, builds>>
format_vars == <<spirv_type, format, format_log>>
bindings_vars == <<bindings, add_last, add_log, adds>>
fields_vars == <<fields_shader, fields, fields_log>>
interface_vars == <<interface_info, interface_device_ok, interface_stage, interface_acc,
                    interface_result>>
vars == <<storage_vars, format_vars, bindings_vars, fields_vars, interface_vars>>

----------------------------------------------------------------------------
(* Bounds of the model *)

\* create_pipeline calls per behaviour
MaxBuilds == 3
\* largest SPIRType::vecsize drawn (1..4 are legal SPIR-V vector sizes; 5 is out of range)
MaxVecSize == 5
\* add_resource_to_bindings calls per binding table
MaxAdds == 2
\* stage inputs of the vertex shader handed to get_vertex_fields
MaxFields == 3

----------------------------------------------------------------------------
(* Values *)

\* rx::optional
nullopt == [has_value |-> FALSE]
Some(v) == [has_value |-> TRUE, value |-> v]

\* the empty rx::map
EmptyMap == [k \in {} |-> TRUE]

\* rx::map::find: a pointer to the value, or null
map_find(m, key) == IF key \in DOMAIN m THEN Some(m[key]) ELSE nullopt

\* rx::map::insert: the entry for key holds value afterwards
map_insert(m, key, value) == [k \in DOMAIN m \cup {key} |-> IF k = key THEN value ELSE m[k]]

\* rhi::VertexFieldFormat, in declaration order: enumerator i has value i - 1
VertexFieldFormat == <<"Uint", "Float2", "Float3", "Float4", "Invalid">>

VertexFieldFormats == {VertexFieldFormat[i] : i \in DOMAIN VertexFieldFormat}

\* `return {}` of an enum class: value-initialisation, the enumerator of value 0
value_initialized_format == VertexFieldFormat[1]

\* SPIRType::BaseType enumerators named by the switch
NamedBaseTypes ==
    {"Unknown", "Void", "Boolean", "SByte", "UByte", "Short", "UShort", "Int", "UInt",
     "Int64", "UInt64", "AtomicCounter", "Half", "Float", "Double", "Struct", "Image",
     "SampledImage", "Sampler", "AccelerationStructureNV", "ControlPointArray", "Char"}

\* a base type value outside the named enumerators reaches the switch's default label
BaseTypes == NamedBaseTypes \cup {"Other"}

VecSizes == 1..MaxVecSize

SPIRTypes == [basetype : BaseTypes, vecsize : VecSizes]

\* rhi::ShaderStage values, in the order create_pipeline_interface processes them
ShaderStages ==
    <<"Vertex", "TessellationControl", "TessellationEvaluation", "Geometry", "Fragment">>

ShaderStage == {ShaderStages[i] : i \in DOMAIN ShaderStages}

\* rhi::DescriptorType values, in the order get_shader_module_descriptors enumerates them
DescriptorType == {"Texture", "Sampler", "CombinedImageSampler", "UniformBuffer", "StorageBuffer"}

----------------------------------------------------------------------------
(* Format Mapper *)

\* mutant: an unsigned integer is accepted as a scalar only
to_rhi_vertex_format_uint_scalar_only(t) ==
    CASE t.basetype = "UInt" -> IF t.vecsize = 1 THEN "Uint" ELSE "Invalid"
      [] t.basetype = "Float" ->
            (CASE t.vecsize = 2 -> "Float2"
               [] t.vecsize = 3 -> "Float3"
               [] t.vecsize = 4 -> "Float4"
               [] OTHER -> "Invalid")
      [] OTHER -> value_initialized_format

\* mutant: the vector size is taken as the component index (off by one)
to_rhi_vertex_format_off_by_one(t) ==
    CASE t.basetype = "UInt" -> "Uint"
      [] t.basetype = "Float" ->
            (CASE t.vecsize = 1 -> "Float2"
               [] t.vecsize = 2 -> "Float3"
               [] t.vecsize = 3 -> "Float4"
               [] OTHER -> "Invalid")
      [] OTHER -> value_initialized_format

to_rhi_vertex_format(t) ==
    CASE t.basetype = "UInt" -> "Uint"
      [] t.basetype = "Float" ->
            (CASE t.vecsize = 2 -> "Float2"
               [] t.vecsize = 3 -> "Float3"
               [] t.vecsize = 4 -> "Float4"
               [] OTHER -> "Invalid")
      [] OTHER -> value_initialized_format

\* the error message to_rhi_vertex_format logs, if any
to_rhi_vertex_format_log(t) ==
    CASE t.basetype = "UInt" -> <<>>
      [] t.basetype = "Float" ->
            IF t.vecsize \in {2, 3, 4}
            THEN <<>>
            ELSE <<[level |-> "error", msg |-> "unsupported float vector elements"]>>
      [] OTHER -> <<[level |-> "error", msg |-> "unsupported vertex field type"]>>

----------------------------------------------------------------------------
(* Vertex Field Extractor *)

\* mutant: a stage input whose format is Invalid is left out of the result
get_vertex_fields_drops_invalid(vertex_shader) ==
    SelectSeq([i \in 1..Len(vertex_shader.source.stage_inputs) |->
                  [name |-> vertex_shader.source.stage_inputs[i].name,
                   format |-> to_rhi_vertex_format(vertex_shader.source.stage_inputs[i].type)]],
              LAMBDA f : f.format # "Invalid")

\* one rhi::VertexField per stage input of the vertex shader, in reflection order
get_vertex_fields(vertex_shader) ==
    [i \in 1..Len(vertex_shader.source.stage_inputs) |->
        [name |-> vertex_shader.source.stage_inputs[i].name,
         format |-> to_rhi_vertex_format(vertex_shader.source.stage_inputs[i].type)]]

\* the error messages get_vertex_fields logs
get_vertex_fields_log(vertex_shader) ==
    LET inputs == vertex_shader.source.stage_inputs
        log[i \in 0..Len(inputs)] ==
            IF i = 0 THEN <<>> ELSE log[i - 1] \o to_rhi_vertex_format_log(inputs[i].type)
    IN  log[Len(inputs)]

----------------------------------------------------------------------------
(* Binding Extractor and Merger *)

\* CompilerGLSL::get_decoration(resource.id, DecorationDescriptorSet / DecorationBinding)
get_decoration(resource, decoration) ==
    IF decoration = "DescriptorSet" THEN resource.set ELSE resource.binding

\* ResourceBindingDescription::operator!= : structural over set, binding, kind, count,
\* unbounded flag; the stage mask is left out
binding_ne(a, b) ==
    ~(/\ a.set = b.set
      /\ a.binding = b.binding
      /\ a.type = b.type
      /\ a.count = b.count
      /\ a.is_unbounded = b.is_unbounded)

\* mutant: the count is read from the last array dimension
new_binding_last_dimension(shader_stage, resource, type) ==
    [set |-> get_decoration(resource, "DescriptorSet"),
     binding |-> get_decoration(resource, "Binding"),
     type |-> type,
     count |-> IF resource.array # <<>> THEN resource.array[Len(resource.array)] ELSE 1,
     is_unbounded |-> resource.array # <<>>,
     stages |-> {shader_stage}]

\* the descriptor add_resource_to_bindings builds for one reflected resource
new_binding(shader_stage, resource, type) ==
    [set |-> get_decoration(resource, "DescriptorSet"),
     binding |-> get_decoration(resource, "Binding"),
     type |-> type,
     count |-> IF resource.array # <<>> THEN resource.array[1] ELSE 1,
     is_unbounded |-> resource.array # <<>>,
     stages |-> {shader_stage}]

\* mutant: on a conflict the new descriptor takes the place of the existing one
add_resource_to_bindings_last_wins(b, shader_stage, resource, type) ==
    IF resource.name \in DOMAIN b
    THEN IF binding_ne(b[resource.name], new_binding(shader_stage, resource, type))
         THEN map_insert(b, resource.name, new_binding(shader_stage, resource, type))
         ELSE [b EXCEPT ![resource.name].stages = @ \cup {shader_stage}]
    ELSE map_insert(b, resource.name, new_binding(shader_stage, resource, type))

\* mutant: an equal descriptor is found and the entry left as it is (no `stages |=`)
add_resource_to_bindings_never_widens(b, shader_stage, resource, type) ==
    IF resource.name \in DOMAIN b
    THEN b
    ELSE map_insert(b, resource.name, new_binding(shader_stage, resource, type))

\* mutant: the stage is OR-ed in before the comparison decides
add_resource_to_bindings_always_widens(b, shader_stage, resource, type) ==
    IF resource.name \in DOMAIN b
    THEN [b EXCEPT ![resource.name].stages = @ \cup {shader_stage}]
    ELSE map_insert(b, resource.name, new_binding(shader_stage, resource, type))

\* mutant: a matching entry is replaced by the new descriptor instead of widened
add_resource_to_bindings_replaces(b, shader_stage, resource, type) ==
    IF resource.name \in DOMAIN b
    THEN IF binding_ne(b[resource.name], new_binding(shader_stage, resource, type))
         THEN b
         ELSE map_insert(b, resource.name, new_binding(shader_stage, resource, type))
    ELSE map_insert(b, resource.name, new_binding(shader_stage, resource, type))

\* the binding table after add_resource_to_bindings
add_resource_to_bindings(b, shader_stage, resource, type) ==
    IF map_find(b, resource.name).has_value
    THEN IF binding_ne(b[resource.name], new_binding(shader_stage, resource, type))
         THEN b
         ELSE [b EXCEPT ![resource.name].stages = @ \cup {shader_stage}]
    ELSE map_insert(b, resource.name, new_binding(shader_stage, resource, type))

\* the error messages add_resource_to_bindings logs
add_resource_to_bindings_log(b, shader_stage, resource, type) ==
    IF /\ map_find(b, resource.name).has_value
       /\ binding_ne(b[resource.name], new_binding(shader_stage, resource, type))
    THEN <<[level |-> "error", msg |-> "two different uniforms", name |-> resource.name]>>
    ELSE <<>>

\* the resources of one shader module in the order get_shader_module_descriptors
\* visits them, each with the descriptor type of its category
tagged(resources, type) ==
    [i \in 1..Len(resources) |-> [resource |-> resources[i], type |-> type]]

shader_resources(spirv) ==
    tagged(spirv.separate_images, "Texture")
        \o tagged(spirv.separate_samplers, "Sampler")
        \o tagged(spirv.sampled_images, "CombinedImageSampler")
        \o tagged(spirv.uniform_buffers, "UniformBuffer")
        \o tagged(spirv.storage_buffers, "StorageBuffer")

\* the binding table after get_shader_module_descriptors: table[i] is the table after
\* the first i resources
get_shader_module_descriptors(spirv, shader_stage, b) ==
    LET rs == shader_resources(spirv)
        table[i \in 0..Len(rs)] ==
            IF i = 0
            THEN b
            ELSE add_resource_to_bindings(table[i - 1], shader_stage, rs[i].resource, rs[i].type)
    IN  table[Len(rs)]

\* the error messages get_shader_module_descriptors logs
get_shader_module_descriptors_log(spirv, shader_stage, b) ==
    LET rs == shader_resources(spirv)
        table[i \in 0..Len(rs)] ==
            IF i = 0
            THEN b
            ELSE add_resource_to_bindings(table[i - 1], shader_stage, rs[i].resource, rs[i].type)
        log[i \in 0..Len(rs)] ==
            IF i = 0
            THEN <<>>
            ELSE log[i - 1] \o add_resource_to_bindings_log(table[i - 1], shader_stage,
                                                             rs[i].resource, rs[i].type)
    IN  log[Len(rs)]

----------------------------------------------------------------------------
(* Inputs: reflected shaders, render passes, pipeline descriptions *)

Float(n) == [basetype |-> "Float", vecsize |-> n]

NoResources ==
    [separate_images |-> <<>>, separate_samplers |-> <<>>, sampled_images |-> <<>>,
     uniform_buffers |-> <<>>, storage_buffers |-> <<>>, stage_inputs |-> <<>>]

CameraUBO == [name |-> "camera", set |-> 0, binding |-> 0, array |-> <<>>]

VertexShaderA ==
    [NoResources EXCEPT
        !.uniform_buffers = <<CameraUBO>>,
        !.stage_inputs = <<[name |-> "position", type |-> Float(4)],
                           [name |-> "normal", type |-> Float(3)],
                           [name |-> "uv", type |-> Float(2)]>>]

VertexShaderB ==
    [NoResources EXCEPT
        !.uniform_buffers = <<CameraUBO>>,
        !.storage_buffers = <<[name |-> "bones", set |-> 1, binding |-> 0, array |-> <<>>]>>,
        !.stage_inputs = <<[name |-> "position", type |-> Float(3)],
                           [name |-> "id", type |-> [basetype |-> "UInt", vecsize |-> 1]],
                           [name |-> "weight", type |-> Float(1)],
                           [name |-> "flags", type |-> [basetype |-> "Int", vecsize |-> 1]]>>]

TessControlShader ==
    [NoResources EXCEPT !.uniform_buffers = <<CameraUBO>>]

TessEvalShader ==
    [NoResources EXCEPT
        !.separate_images = <<[name |-> "heightmap", set |-> 1, binding |-> 1, array |-> <<>>]>>,
        !.separate_samplers = <<[name |-> "point", set |-> 1, binding |-> 2, array |-> <<>>]>>]

GeometryShader ==
    [NoResources EXCEPT
        !.uniform_buffers = <<[name |-> "camera", set |-> 0, binding |-> 1, array |-> <<>>]>>]

FragmentShaderA ==
    [NoResources EXCEPT
        !.uniform_buffers = <<CameraUBO>>,
        !.sampled_images = <<[name |-> "textures", set |-> 0, binding |-> 1, array |-> <<4>>]>>]

FragmentShaderB ==
    [NoResources EXCEPT
        !.sampled_images = <<[name |-> "bones", set |-> 1, binding |-> 0, array |-> <<>>]>>,
        !.separate_images = <<[name |-> "heightmap", set |-> 1, binding |-> 1, array |-> <<>>]>>]

ShaderSource(spirv) == [source |-> spirv]

\* the per-stage shaders of the pipeline descriptions drawn
ShaderSets ==
    {[vertex_shader |-> ShaderSource(VertexShaderA),
      tessellation_control_shader |-> nullopt,
      tessellation_evaluation_shader |-> nullopt,
      geometry_shader |-> nullopt,
      fragment_shader |-> Some(ShaderSource(FragmentShaderA))],
     [vertex_shader |-> ShaderSource(VertexShaderB),
      tessellation_control_shader |-> Some(ShaderSource(TessControlShader)),
      tessellation_evaluation_shader |-> Some(ShaderSource(TessEvalShader)),
      geometry_shader |-> Some(ShaderSource(GeometryShader)),
      fragment_shader |-> Some(ShaderSource(FragmentShaderB))]}

PipelineNames == {"gbuffer", "sky"}

\* names get_pipeline is asked for: the pipeline names and one that is never built
LookupNames == PipelineNames \cup {"ui"}

\* the render passes the renderer has metadata for
renderpass_metadatas ==
    [p \in {"Forward"} |->
        [data |-> [texture_outputs |-> <<"color">>, depth_texture |-> Some("depth")]]]

PassNames == {"Forward", "Shadow"}

PipelineCreateInfos ==
    {[name |-> n, pass |-> p,
      vertex_shader |-> s.vertex_shader,
      tessellation_control_shader |-> s.tessellation_control_shader,
      tessellation_evaluation_shader |-> s.tessellation_evaluation_shader,
      geometry_shader |-> s.geometry_shader,
      fragment_shader |-> s.fragment_shader] : n \in PipelineNames, p \in PassNames, s \in ShaderSets}

\* NovaRenderer::get_renderpass_metadata
get_renderpass_metadata(pass) == map_find(renderpass_metadatas, pass)

----------------------------------------------------------------------------
(* Pipeline Interface Builder *)

\* one call made to a collaborator or helper: what was called, with what, and whether
\* it succeeded (calls that cannot fail count as succeeded)
Call(fn, arg, ok) == [fn |-> fn, arg |-> arg, ok |-> ok]

\* one `if(shader) get_shader_module_descriptors(shader->source, stage, bindings)` step
stage_step(acc, shader, shader_stage) ==
    IF shader.has_value
    THEN [bindings |-> get_shader_module_descriptors(shader.value.source, shader_stage, acc.bindings),
          calls |-> Append(acc.calls, Call("get_shader_module_descriptors", shader_stage, TRUE)),
          log |-> acc.log \o get_shader_module_descriptors_log(shader.value.source, shader_stage,
                                                                acc.bindings)]
    ELSE acc

\* the shader of each stage, in the order of ShaderStages: the vertex shader is
\* mandatory, the others optional
stage_shaders(pipeline_create_info) ==
    <<Some(pipeline_create_info.vertex_shader),
      pipeline_create_info.tessellation_control_shader,
      pipeline_create_info.tessellation_evaluation_shader,
      pipeline_create_info.geometry_shader,
      pipeline_create_info.fragment_shader>>

\* mutant: the fragment shader is reflected first, then the stages in ShaderStages order
extract_bindings_fragment_first(pipeline_create_info) ==
    LET shaders == stage_shaders(pipeline_create_info)
        order == <<5, 1, 2, 3, 4>>
        acc[i \in 0..Len(ShaderStages)] ==
            IF i = 0
            THEN [bindings |-> EmptyMap, calls |-> <<>>, log |-> <<>>]
            ELSE stage_step(acc[i - 1], shaders[order[i]], ShaderStages[order[i]])
    IN  acc[Len(ShaderStages)]

\* the binding table, calls and log of create_pipeline_interface up to the device call:
\* acc[i] is the state after the first i stages, starting from an empty table
extract_bindings(pipeline_create_info) ==
    LET shaders == stage_shaders(pipeline_create_info)
        acc[i \in 0..Len(ShaderStages)] ==
            IF i = 0
            THEN [bindings |-> EmptyMap, calls |-> <<>>, log |-> <<>>]
            ELSE stage_step(acc[i - 1], shaders[i], ShaderStages[i])
    IN  acc[Len(ShaderStages)]

\* mutant: a binding-name conflict aborts the build before the device is called
create_pipeline_interface_fails_on_conflict(pipeline_create_info, color_attachments, depth_texture, interface_ok) ==
    LET acc == extract_bindings(pipeline_create_info)
        device_call == Call("device.create_pipeline_interface",
                            [bindings |-> acc.bindings,
                             color_attachments |-> color_attachments,
                             depth_texture |-> depth_texture],
                            interface_ok)
    IN  IF acc.log # <<>>
        THEN [ok |-> FALSE,
              error |-> "two different uniforms",
              calls |-> acc.calls,
              log |-> acc.log]
        ELSE IF interface_ok
        THEN [ok |-> TRUE,
              value |-> [bindings |-> acc.bindings,
                         color_attachments |-> color_attachments,
                         depth_texture |-> depth_texture,
                         vertex_fields |-> get_vertex_fields(pipeline_create_info.vertex_shader)],
              calls |-> acc.calls \o <<device_call, Call("get_vertex_fields", "Vertex", TRUE)>>,
              log |-> acc.log \o get_vertex_fields_log(pipeline_create_info.vertex_shader)]
        ELSE [ok |-> FALSE,
              error |-> "device.create_pipeline_interface failed",
              calls |-> Append(acc.calls, device_call),
              log |-> acc.log]

\* mutant: the vertex fields are extracted before the device is called, whatever the
\* call returns
create_pipeline_interface_extracts_fields_first(pipeline_create_info, color_attachments, depth_texture, interface_ok) ==
    LET acc == extract_bindings(pipeline_create_info)
        device_call == Call("device.create_pipeline_interface",
                            [bindings |-> acc.bindings,
                             color_attachments |-> color_attachments,
                             depth_texture |-> depth_texture],
                            interface_ok)
        calls == acc.calls \o <<Call("get_vertex_fields", "Vertex", TRUE), device_call>>
        log == acc.log \o get_vertex_fields_log(pipeline_create_info.vertex_shader)
    IN  IF interface_ok
        THEN [ok |-> TRUE,
              value |-> [bindings |-> acc.bindings,
                         color_attachments |-> color_attachments,
                         depth_texture |-> depth_texture,
                         vertex_fields |-> get_vertex_fields(pipeline_create_info.vertex_shader)],
              calls |-> calls,
              log |-> log]
        ELSE [ok |-> FALSE,
              error |-> "device.create_pipeline_interface failed",
              calls |-> calls,
              log |-> log]

\* interface_ok: whether the device's create_pipeline_interface succeeds
create_pipeline_interface(pipeline_create_info, color_attachments, depth_texture, interface_ok) ==
    LET acc == extract_bindings(pipeline_create_info)
        device_call == Call("device.create_pipeline_interface",
                            [bindings |-> acc.bindings,
                             color_attachments |-> color_attachments,
                             depth_texture |-> depth_texture],
                            interface_ok)
    IN  IF interface_ok
        THEN [ok |-> TRUE,
              value |-> [bindings |-> acc.bindings,
                         color_attachments |-> color_attachments,
                         depth_texture |-> depth_texture,
                         vertex_fields |-> get_vertex_fields(pipeline_create_info.vertex_shader)],
              calls |-> acc.calls \o <<device_call, Call("get_vertex_fields", "Vertex", TRUE)>>,
              log |-> acc.log \o get_vertex_fields_log(pipeline_create_info.vertex_shader)]
        ELSE [ok |-> FALSE,
              error |-> "device.create_pipeline_interface failed",
              calls |-> Append(acc.calls, device_call),
              log |-> acc.log]

----------------------------------------------------------------------------
(* Pipeline Storage *)

\* mutant: pipeline.pipeline_interface is left null (handle 0)
create_graphics_pipeline_without_interface(pipeline_interface, pipeline_create_info, pipeline_ok) ==
    LET device_call == Call("device.create_pipeline",
                            [pipeline_interface |-> pipeline_interface,
                             create_info |-> pipeline_create_info],
                            pipeline_ok)
    IN  IF pipeline_ok
        THEN [ok |-> TRUE,
              value |-> [pipeline |-> [pipeline |-> Len(device_pipelines) + 1,
                                       pipeline_interface |-> 0],
                         metadata |-> [data |-> pipeline_create_info]],
              calls |-> <<device_call>>]
        ELSE [ok |-> FALSE,
              error |-> "Could not create pipeline",
              calls |-> <<device_call>>]

\* pipeline_interface: handle of the interface; pipeline_ok: whether the device's
\* create_pipeline succeeds; the new pipeline's handle is the next free one
create_graphics_pipeline(pipeline_interface, pipeline_create_info, pipeline_ok) ==
    LET device_call == Call("device.create_pipeline",
                            [pipeline_interface |-> pipeline_interface,
                             create_info |-> pipeline_create_info],
                            pipeline_ok)
    IN  IF pipeline_ok
        THEN [ok |-> TRUE,
              value |-> [pipeline |-> [pipeline |-> Len(device_pipelines) + 1,
                                       pipeline_interface |-> pipeline_interface],
                         metadata |-> [data |-> pipeline_create_info]],
              calls |-> <<device_call>>]
        ELSE [ok |-> FALSE,
              error |-> "Could not create pipeline",
              calls |-> <<device_call>>]

\* mutant: the lookup returns a cached pipeline without comparing the whole name
get_pipeline_ignores_name(pipeline_name) ==
    IF DOMAIN pipelines = {}
    THEN nullopt
    ELSE Some(pipelines[CHOOSE n \in DOMAIN pipelines : TRUE])

\* PipelineStorage::get_pipeline
get_pipeline(pipeline_name) == map_find(pipelines, pipeline_name)

\* the outcome of a create_pipeline call that changes nothing
failed_build(calls, log) ==
    [ret |-> FALSE,
     pipelines |-> pipelines,
     pipeline_metadatas |-> pipeline_metadatas,
     device_interfaces |-> device_interfaces,
     device_pipelines |-> device_pipelines,
     calls |-> calls,
     log |-> log]

\* mutant: the result is stored before it is checked, so a failed allocation caches a null pipeline
create_pipeline_stores_unchecked(create_info, interface_ok, pipeline_ok) ==
    LET rp_create == get_renderpass_metadata(create_info.pass)
        rp_call == Call("get_renderpass_metadata", create_info.pass, rp_create.has_value)
    IN  IF ~rp_create.has_value
        THEN failed_build(<<rp_call>>,
                          <<[level |-> "error", msg |-> "renderpass has no metadata"]>>)
        ELSE
        LET pipeline_interface ==
                create_pipeline_interface(create_info,
                                          rp_create.value.data.texture_outputs,
                                          rp_create.value.data.depth_texture,
                                          interface_ok)
        IN  IF ~pipeline_interface.ok
            THEN failed_build(<<rp_call>> \o pipeline_interface.calls,
                              pipeline_interface.log
                                \o <<[level |-> "error", msg |-> "invalid interface"]>>)
            ELSE
            LET interfaces == Append(device_interfaces, pipeline_interface.value)
                pipeline_result ==
                    create_graphics_pipeline(Len(interfaces), create_info, pipeline_ok)
                calls == <<rp_call>> \o pipeline_interface.calls \o pipeline_result.calls
            IN  IF pipeline_result.ok
                THEN [ret |-> TRUE,
                      pipelines |->
                          map_insert(pipelines, create_info.name, pipeline_result.value.pipeline),
                      pipeline_metadatas |->
                          map_insert(pipeline_metadatas, create_info.name,
                                     pipeline_result.value.metadata),
                      device_interfaces |-> interfaces,
                      device_pipelines |-> Append(device_pipelines,
                                                  [pipeline_interface |-> Len(interfaces),
                                                   create_info |-> create_info]),
                      calls |-> calls,
                      log |-> pipeline_interface.log]
                ELSE [failed_build(calls,
                                   pipeline_interface.log
                                     \o <<[level |-> "error", msg |-> "Could not create pipeline"]>>)
                        EXCEPT !.device_interfaces = interfaces,
                               !.pipelines =
                                   map_insert(pipelines, create_info.name,
                                              [pipeline |-> 0, pipeline_interface |-> Len(interfaces)]),
                               !.pipeline_metadatas =
                                   map_insert(pipeline_metadatas, create_info.name,
                                              [data |-> create_info])]

\* mutant: the interface is built before the render pass metadata is checked
create_pipeline_resolves_pass_late(create_info, interface_ok, pipeline_ok) ==
    LET rp_create == get_renderpass_metadata(create_info.pass)
        rp_call == Call("get_renderpass_metadata", create_info.pass, rp_create.has_value)
        late == create_pipeline_interface(create_info, <<>>, nullopt, interface_ok)
    IN  IF ~rp_create.has_value
        THEN [failed_build(<<rp_call>> \o late.calls,
                           <<[level |-> "error", msg |-> "renderpass has no metadata"]>>)
                EXCEPT !.device_interfaces =
                           IF late.ok THEN Append(device_interfaces, late.value)
                                      ELSE device_interfaces]
        ELSE
        LET pipeline_interface ==
                create_pipeline_interface(create_info,
                                          rp_create.value.data.texture_outputs,
                                          rp_create.value.data.depth_texture,
                                          interface_ok)
        IN  IF ~pipeline_interface.ok
            THEN failed_build(<<rp_call>> \o pipeline_interface.calls,
                              pipeline_interface.log
                                \o <<[level |-> "error", msg |-> "invalid interface"]>>)
            ELSE
            LET interfaces == Append(device_interfaces, pipeline_interface.value)
                pipeline_result ==
                    create_graphics_pipeline(Len(interfaces), create_info, pipeline_ok)
                calls == <<rp_call>> \o pipeline_interface.calls \o pipeline_result.calls
            IN  IF pipeline_result.ok
                THEN [ret |-> TRUE,
                      pipelines |->
                          map_insert(pipelines, create_info.name, pipeline_result.value.pipeline),
                      pipeline_metadatas |->
                          map_insert(pipeline_metadatas, create_info.name,
                                     pipeline_result.value.metadata),
                      device_interfaces |-> interfaces,
                      device_pipelines |-> Append(device_pipelines,
                                                  [pipeline_interface |-> Len(interfaces),
                                                   create_info |-> create_info]),
                      calls |-> calls,
                      log |-> pipeline_interface.log]
                ELSE [failed_build(calls,
                                   pipeline_interface.log
                                     \o <<[level |-> "error", msg |-> "Could not create pipeline"]>>)
                        EXCEPT !.device_interfaces = interfaces]

\* mutant: the failure of the pipeline allocation is logged but true is returned
create_pipeline_reports_success(create_info, interface_ok, pipeline_ok) ==
    LET rp_create == get_renderpass_metadata(create_info.pass)
        rp_call == Call("get_renderpass_metadata", create_info.pass, rp_create.has_value)
    IN  IF ~rp_create.has_value
        THEN failed_build(<<rp_call>>,
                          <<[level |-> "error", msg |-> "renderpass has no metadata"]>>)
        ELSE
        LET pipeline_interface ==
                create_pipeline_interface(create_info,
                                          rp_create.value.data.texture_outputs,
                                          rp_create.value.data.depth_texture,
                                          interface_ok)
        IN  IF ~pipeline_interface.ok
            THEN failed_build(<<rp_call>> \o pipeline_interface.calls,
                              pipeline_interface.log
                                \o <<[level |-> "error", msg |-> "invalid interface"]>>)
            ELSE
            LET interfaces == Append(device_interfaces, pipeline_interface.value)
                pipeline_result ==
                    create_graphics_pipeline(Len(interfaces), create_info, pipeline_ok)
                calls == <<rp_call>> \o pipeline_interface.calls \o pipeline_result.calls
            IN  IF pipeline_result.ok
                THEN [ret |-> TRUE,
                      pipelines |->
                          map_insert(pipelines, create_info.name, pipeline_result.value.pipeline),
                      pipeline_metadatas |->
                          map_insert(pipeline_metadatas, create_info.name,
                                     pipeline_result.value.metadata),
                      device_interfaces |-> interfaces,
                      device_pipelines |-> Append(device_pipelines,
                                                  [pipeline_interface |-> Len(interfaces),
                                                   create_info |-> create_info]),
                      calls |-> calls,
                      log |-> pipeline_interface.log]
                ELSE [failed_build(calls,
                                   pipeline_interface.log
                                     \o <<[level |-> "error", msg |-> "Could not create pipeline"]>>)
                        EXCEPT !.device_interfaces = interfaces, !.ret = TRUE]

\* mutant: an already cached pipeline is kept when the name is built again
create_pipeline_keeps_first(create_info, interface_ok, pipeline_ok) ==
    LET rp_create == get_renderpass_metadata(create_info.pass)
        rp_call == Call("get_renderpass_metadata", create_info.pass, rp_create.has_value)
    IN  IF ~rp_create.has_value
        THEN failed_build(<<rp_call>>,
                          <<[level |-> "error", msg |-> "renderpass has no metadata"]>>)
        ELSE
        LET pipeline_interface ==
                create_pipeline_interface(create_info,
                                          rp_create.value.data.texture_outputs,
                                          rp_create.value.data.depth_texture,
                                          interface_ok)
        IN  IF ~pipeline_interface.ok
            THEN failed_build(<<rp_call>> \o pipeline_interface.calls,
                              pipeline_interface.log
                                \o <<[level |-> "error", msg |-> "invalid interface"]>>)
            ELSE
            LET interfaces == Append(device_interfaces, pipeline_interface.value)
                pipeline_result ==
                    create_graphics_pipeline(Len(interfaces), create_info, pipeline_ok)
                calls == <<rp_call>> \o pipeline_interface.calls \o pipeline_result.calls
            IN  IF pipeline_result.ok
                THEN [ret |-> TRUE,
                      pipelines |->
                          IF create_info.name \in DOMAIN pipelines
                          THEN pipelines
                          ELSE map_insert(pipelines, create_info.name,
                                          pipeline_result.value.pipeline),
                      pipeline_metadatas |->
                          map_insert(pipeline_metadatas, create_info.name,
                                     pipeline_result.value.metadata),
                      device_interfaces |-> interfaces,
                      device_pipelines |-> Append(device_pipelines,
                                                  [pipeline_interface |-> Len(interfaces),
                                                   create_info |-> create_info]),
                      calls |-> calls,
                      log |-> pipeline_interface.log]
                ELSE [failed_build(calls,
                                   pipeline_interface.log
                                     \o <<[level |-> "error", msg |-> "Could not create pipeline"]>>)
                        EXCEPT !.device_interfaces = interfaces]

\* PipelineStorage::create_pipeline: the return value, the maps and the device's objects
\* after the call, the collaborator calls made and the messages logged
create_pipeline(create_info, interface_ok, pipeline_ok) ==
    LET rp_create == get_renderpass_metadata(create_info.pass)
        rp_call == Call("get_renderpass_metadata", create_info.pass, rp_create.has_value)
    IN  IF ~rp_create.has_value
        THEN failed_build(<<rp_call>>,
                          <<[level |-> "error", msg |-> "renderpass has no metadata"]>>)
        ELSE
        LET pipeline_interface ==
                create_pipeline_interface(create_info,
                                          rp_create.value.data.texture_outputs,
                                          rp_create.value.data.depth_texture,
                                          interface_ok)
        IN  IF ~pipeline_interface.ok
            THEN failed_build(<<rp_call>> \o pipeline_interface.calls,
                              pipeline_interface.log
                                \o <<[level |-> "error", msg |-> "invalid interface"]>>)
            ELSE
            LET interfaces == Append(device_interfaces, pipeline_interface.value)
                pipeline_result ==
                    create_graphics_pipeline(Len(interfaces), create_info, pipeline_ok)
                calls == <<rp_call>> \o pipeline_interface.calls \o pipeline_result.calls
            IN  IF pipeline_result.ok
                THEN [ret |-> TRUE,
                      pipelines |->
                          map_insert(pipelines, create_info.name, pipeline_result.value.pipeline),
                      pipeline_metadatas |->
                          map_insert(pipeline_metadatas, create_info.name,
                                     pipeline_result.value.metadata),
                      device_interfaces |-> interfaces,
                      device_pipelines |-> Append(device_pipelines,
                                                  [pipeline_interface |-> Len(interfaces),
                                                   create_info |-> create_info]),
                      calls |-> calls,
                      log |-> pipeline_interface.log]
                ELSE [failed_build(calls,
                                   pipeline_interface.log
                                     \o <<[level |-> "error", msg |-> "Could not create pipeline"]>>)
                        EXCEPT !.device_interfaces = interfaces]

----------------------------------------------------------------------------
(* Pipeline Storage: create_pipeline and get_pipeline calls in any order *)

StorageInit ==
    /\ pipelines = EmptyMap
    /\ pipeline_metadatas = EmptyMap
    /\ device_interfaces = <<>>
    /\ device_pipelines = <<>>
    /\ last = [op |-> "none"]
    /\ succeeded = {}
    /\ builds = 0

FormatIdle ==
    /\ spirv_type = [basetype |-> "Unknown", vecsize |-> 1]
    /\ format = nullopt
    /\ format_log = <<>>

BindingsInit ==
    /\ bindings = EmptyMap
    /\ add_last = [called |-> FALSE]
    /\ add_log = <<>>
    /\ adds = 0

FieldsIdle ==
    /\ fields_shader = [source |-> [stage_inputs |-> <<>>]]
    /\ fields = nullopt
    /\ fields_log = <<>>

InterfaceIdle ==
    /\ interface_info = [name |-> "none"]
    /\ interface_device_ok = FALSE
    /\ interface_stage = 0
    /\ interface_acc = [bindings |-> EmptyMap, calls |-> <<>>, log |-> <<>>]
    /\ interface_result = nullopt

\* the storage and the device after a create_pipeline call with outcome r
StorageBecomes(r, create_info) ==
    /\ pipelines' = r.pipelines
    /\ pipeline_metadatas' = r.pipeline_metadatas
    /\ device_interfaces' = r.device_interfaces
    /\ device_pipelines' = r.device_pipelines
    /\ last' = [op |-> "create_pipeline", create_info |-> create_info,
                ret |-> r.ret, calls |-> r.calls, log |-> r.log]
    /\ succeeded' = IF r.ret THEN succeeded \cup {create_info.name} ELSE succeeded

CreatePipeline(create_info, interface_ok, pipeline_ok) ==
    /\ builds < MaxBuilds
    /\ StorageBecomes(create_pipeline(create_info, interface_ok, pipeline_ok), create_info)
    /\ builds' = builds + 1
    /\ UNCHANGED <<format_vars, bindings_vars, fields_vars, interface_vars>>

GetPipeline(pipeline_name) ==
    /\ last' = [op |-> "get_pipeline", pipeline_name |-> pipeline_name,
                ret |-> get_pipeline(pipeline_name)]
    /\ UNCHANGED <<pipelines, pipeline_metadatas, device_interfaces, device_pipelines,
                   succeeded, builds>>
    /\ UNCHANGED <<format_vars, bindings_vars, fields_vars, interface_vars>>

Init == StorageInit /\ FormatIdle /\ BindingsInit /\ FieldsIdle /\ InterfaceIdle

Build == \E create_info \in PipelineCreateInfos, interface_ok \in BOOLEAN, pipeline_ok \in BOOLEAN :
            CreatePipeline(create_info, interface_ok, pipeline_ok)

Lookup == \E pipeline_name \in LookupNames : GetPipeline(pipeline_name)

Next == Build \/ Lookup

Spec == Init /\ [][Next]_vars

----------------------------------------------------------------------------
(* Format Mapper: to_rhi_vertex_format applied to one reflected type *)

InitFormat ==
    /\ spirv_type \in SPIRTypes
    /\ format = nullopt
    /\ format_log = <<>>
    /\ StorageInit
    /\ BindingsInit
    /\ FieldsIdle
    /\ InterfaceIdle

ToRhiVertexFormat ==
    /\ ~format.has_value
    /\ format' = Some(to_rhi_vertex_format(spirv_type))
    /\ format_log' = to_rhi_vertex_format_log(spirv_type)
    /\ UNCHANGED <<spirv_type, storage_vars, bindings_vars, fields_vars, interface_vars>>

NextFormat == ToRhiVertexFormat

SpecFormat == InitFormat /\ [][NextFormat]_vars

----------------------------------------------------------------------------
(* Binding Merger: add_resource_to_bindings applied to one pipeline's table *)

ResourceNames == {"camera", "textures"}

ArrayDimensions == {<<>>, <<1>>, <<4>>, <<4, 2>>}

BaseShape == [set |-> 0, binding |-> 0, array |-> <<>>, type |-> "UniformBuffer"]

\* the declarations drawn: the base shape and every shape one field away from it
Shapes ==
    {s \in [set : 0..1, binding : 0..1, array : ArrayDimensions, type : DescriptorType] :
        Cardinality({f \in {"set", "binding", "array", "type"} : s[f] # BaseShape[f]}) <= 1}

Resource(name, shape) ==
    [name |-> name, set |-> shape.set, binding |-> shape.binding, array |-> shape.array]

AddResourceToBindings(shader_stage, resource, type) ==
    /\ adds < MaxAdds
    /\ bindings' = add_resource_to_bindings(bindings, shader_stage, resource, type)
    /\ add_log' = add_resource_to_bindings_log(bindings, shader_stage, resource, type)
    /\ add_last' = [called |-> TRUE, shader_stage |-> shader_stage, resource |-> resource,
                    type |-> type, before |-> bindings]
    /\ adds' = adds + 1
    /\ UNCHANGED <<storage_vars, format_vars, fields_vars, interface_vars>>

InitBindings == BindingsInit /\ StorageInit /\ FormatIdle /\ FieldsIdle /\ InterfaceIdle

NextBindings ==
    \E shader_stage \in ShaderStage, name \in ResourceNames, shape \in Shapes :
        AddResourceToBindings(shader_stage, Resource(name, shape), shape.type)

SpecBindings == InitBindings /\ [][NextBindings]_vars

----------------------------------------------------------------------------
(* Vertex Field Extractor: get_vertex_fields applied to one vertex shader *)

StageInputNames == {"position", "normal", "uv"}

\* the reflected types drawn: float scalar and vectors, unsigned and signed int
StageInputTypes ==
    {Float(n) : n \in 1..4}
        \cup {[basetype |-> "UInt", vecsize |-> 1], [basetype |-> "Int", vecsize |-> 1]}

StageInputs == [name : StageInputNames, type : StageInputTypes]

\* the vertex shaders drawn: every list of at most MaxFields stage inputs
FieldsShaders ==
    {ShaderSource([NoResources EXCEPT !.stage_inputs = inputs]) :
        inputs \in UNION {[1..n -> StageInputs] : n \in 0..MaxFields}}

InitFields ==
    /\ fields_shader \in FieldsShaders
    /\ fields = nullopt
    /\ fields_log = <<>>
    /\ StorageInit
    /\ FormatIdle
    /\ BindingsInit
    /\ InterfaceIdle

GetVertexFields ==
    /\ ~fields.has_value
    /\ fields' = Some(get_vertex_fields(fields_shader))
    /\ fields_log' = get_vertex_fields_log(fields_shader)
    /\ UNCHANGED <<fields_shader, storage_vars, format_vars, bindings_vars, interface_vars>>

NextFields == GetVertexFields

SpecFields == InitFields /\ [][NextFields]_vars

----------------------------------------------------------------------------
(* Pipeline Interface Builder: create_pipeline_interface applied to one create-info, *)
(* the local binding table followed from stage to stage                              *)

TexturesArray == [name |-> "textures", set |-> 0, binding |-> 1, array |-> <<4>>]

\* the reflected resources drawn for each stage: the camera buffer alone, the camera
\* buffer at another binding, the camera buffer next to a texture array, and a texture
\* that is itself named camera
InterfaceResources ==
    {[NoResources EXCEPT !.uniform_buffers = <<CameraUBO>>],
     [NoResources EXCEPT !.uniform_buffers = <<[CameraUBO EXCEPT !.binding = 1]>>],
     [NoResources EXCEPT !.uniform_buffers = <<CameraUBO>>, !.sampled_images = <<TexturesArray>>],
     [NoResources EXCEPT !.separate_images = <<CameraUBO>>]}

InterfaceVertexShaders ==
    {ShaderSource([spirv EXCEPT !.stage_inputs = VertexShaderA.stage_inputs]) :
        spirv \in InterfaceResources}

\* an optional stage: absent, or one of the shaders
InterfaceOptionalShaders ==
    {nullopt} \cup {Some(ShaderSource(spirv)) : spirv \in InterfaceResources}

InterfaceCreateInfos ==
    {[name |-> "gbuffer", pass |-> "Forward",
      vertex_shader |-> vs,
      tessellation_control_shader |-> tcs,
      tessellation_evaluation_shader |-> tes,
      geometry_shader |-> gs,
      fragment_shader |-> fs] :
        vs \in InterfaceVertexShaders, tcs \in InterfaceOptionalShaders,
        tes \in InterfaceOptionalShaders, gs \in InterfaceOptionalShaders,
        fs \in InterfaceOptionalShaders}

InitInterface ==
    /\ interface_info \in InterfaceCreateInfos
    /\ interface_device_ok \in BOOLEAN
    /\ interface_stage = 0
    /\ interface_acc = [bindings |-> EmptyMap, calls |-> <<>>, log |-> <<>>]
    /\ interface_result = nullopt
    /\ StorageInit
    /\ FormatIdle
    /\ BindingsInit
    /\ FieldsIdle

\* one of the five `get_shader_module_descriptors` statements, taken or skipped
ExtractStage ==
    /\ ~interface_result.has_value
    /\ interface_stage < Len(ShaderStages)
    /\ interface_acc' = stage_step(interface_acc,
                                  stage_shaders(interface_info)[interface_stage + 1],
                                  ShaderStages[interface_stage + 1])
    /\ interface_stage' = interface_stage + 1
    /\ UNCHANGED <<interface_info, interface_device_ok, interface_result>>
    /\ UNCHANGED <<storage_vars, format_vars, bindings_vars, fields_vars>>

\* the device call and the return: the function's result on this create-info
ReturnInterface ==
    /\ ~interface_result.has_value
    /\ interface_stage = Len(ShaderStages)
    /\ interface_result' =
            Some(create_pipeline_interface(interface_info,
                                           renderpass_metadatas[interface_info.pass].data.texture_outputs,
                                           renderpass_metadatas[interface_info.pass].data.depth_texture,
                                           interface_device_ok))
    /\ UNCHANGED <<interface_info, interface_device_ok, interface_stage, interface_acc>>
    /\ UNCHANGED <<storage_vars, format_vars, bindings_vars, fields_vars>>

NextInterface == ExtractStage \/ ReturnInterface

SpecInterface == InitInterface /\ [][NextInterface]_vars

----------------------------------------------------------------------------
(* Properties of the Pipeline Storage, checked under Spec *)

\* the positions in a call trace at which fn was called
CallsOf(calls, fn) == {i \in DOMAIN calls : calls[i].fn = fn}

LastBuild == last.op = "create_pipeline"

\* C1: get_pipeline(name) returns a pipeline if and only if some earlier
\* create_pipeline call with exactly that name returned true; a name never built, or
\* whose every build failed, yields empty.
C1_LookupIffBuilt ==
    /\ \A n \in LookupNames : get_pipeline(n).has_value <=> n \in succeeded
    /\ last.op = "get_pipeline" =>
          (last.ret.has_value <=> last.pipeline_name \in succeeded)

\* a lookup found a pipeline while another name, built at least once, has no pipeline
C1_Witness ==
    /\ last.op = "get_pipeline"
    /\ last.ret.has_value
    /\ builds >= 2
    /\ Cardinality(succeeded) = 1
    /\ Len(device_pipelines) = 1

\* an earlier successful build of the same name with a different create-info
EarlierBuilds(create_info) ==
    {k \in 1..(Len(device_pipelines) - 1) :
        /\ device_pipelines[k].create_info.name = create_info.name
        /\ device_pipelines[k].create_info # create_info}

\* C2: when create_pipeline succeeds again for a name already built with a different
\* create-info, both map entries are overwritten: get_pipeline returns the pipeline of
\* the second build, not the first, and the stored metadata is the second create-info.
C2_RebuildOverwrites ==
    (LastBuild /\ last.ret /\ EarlierBuilds(last.create_info) # {}) =>
        /\ get_pipeline(last.create_info.name) =
              Some([pipeline |-> Len(device_pipelines),
                    pipeline_interface |-> Len(device_interfaces)])
        /\ device_pipelines[Len(device_pipelines)].create_info = last.create_info
        /\ \A k \in EarlierBuilds(last.create_info) :
              pipelines[last.create_info.name].pipeline # k
        /\ pipeline_metadatas[last.create_info.name] = [data |-> last.create_info]

\* the second successful build of a name, with different shaders, has just returned
C2_Witness ==
    /\ LastBuild
    /\ last.ret
    /\ \E k \in EarlierBuilds(last.create_info) :
          device_pipelines[k].create_info.vertex_shader # last.create_info.vertex_shader

\* C3: create_pipeline for a pass without render-pass metadata returns false and calls
\* neither the device nor the binding extraction.
C3_MissingPassNoDevice ==
    (LastBuild /\ last.create_info.pass \notin DOMAIN renderpass_metadatas) =>
        /\ ~last.ret
        /\ \A i \in DOMAIN last.calls : last.calls[i].fn = "get_renderpass_metadata"

\* a build for a pass without metadata has just returned, after an earlier build
\* had made the device allocate objects
C3_Witness ==
    /\ LastBuild
    /\ last.create_info.pass \notin DOMAIN renderpass_metadatas
    /\ Len(device_interfaces) > 0

\* C4: a create_pipeline call that returns false leaves both maps exactly as they
\* were, and no step ever removes an entry.
C4_FailedBuildKeepsMaps ==
    [][/\ (last'.op = "create_pipeline" /\ ~last'.ret) =>
              (pipelines' = pipelines /\ pipeline_metadatas' = pipeline_metadatas)
       /\ DOMAIN pipelines \subseteq DOMAIN pipelines'
       /\ DOMAIN pipeline_metadatas \subseteq DOMAIN pipeline_metadatas']_vars

\* a rebuild of a cached name has just failed in the device's create_pipeline and the
\* earlier pipeline is still there
C4_Witness ==
    /\ LastBuild
    /\ ~last.ret
    /\ CallsOf(last.calls, "device.create_pipeline") # {}
    /\ get_pipeline(last.create_info.name).has_value
    /\ pipeline_metadatas[last.create_info.name].data # last.create_info

\* C5: create_pipeline returns true exactly when the registry lookup, the device's
\* create_pipeline_interface and the device's create_pipeline all succeed, in that
\* order; the device's create_pipeline is called only after create_pipeline_interface
\* succeeded, each device operation at most once, and a failing device step makes the
\* call return false.
C5_BuildSucceedsIffAllSteps ==
    LastBuild =>
        LET c == last.calls
            registry == CallsOf(c, "get_renderpass_metadata")
            interface == CallsOf(c, "device.create_pipeline_interface")
            pipeline == CallsOf(c, "device.create_pipeline")
        IN  /\ last.ret <=> /\ \E i \in registry : c[i].ok
                            /\ \E i \in interface : c[i].ok
                            /\ \E i \in pipeline : c[i].ok
            /\ registry = {1}
            /\ c[1].ok <=> last.create_info.pass \in DOMAIN renderpass_metadatas
            /\ Cardinality(interface) <= 1
            /\ Cardinality(pipeline) <= 1
            /\ \A i \in interface : c[1].ok /\ 1 < i
            /\ \A j \in pipeline : \E i \in interface : i < j /\ c[i].ok
            /\ (\E i \in interface \cup pipeline : ~c[i].ok) => ~last.ret

\* a build has just returned true after both device calls
C5_Witness ==
    /\ LastBuild
    /\ last.ret
    /\ CallsOf(last.calls, "device.create_pipeline_interface") # {}
    /\ CallsOf(last.calls, "device.create_pipeline") # {}

----------------------------------------------------------------------------
(* Properties of the Binding Extractor and Merger, checked under SpecBindings *)

\* structural equality of two descriptors as the data model states it: every field
\* but the stage mask
StructurallyEqual(a, b) ==
    /\ a.set = b.set
    /\ a.binding = b.binding
    /\ a.type = b.type
    /\ a.count = b.count
    /\ a.is_unbounded = b.is_unbounded

\* the descriptor the last call should have built, field by field
ExpectedDescriptor ==
    [set |-> add_last.resource.set,
     binding |-> add_last.resource.binding,
     type |-> add_last.type,
     count |-> IF Len(add_last.resource.array) = 0 THEN 1 ELSE add_last.resource.array[1],
     is_unbounded |-> Len(add_last.resource.array) > 0,
     stages |-> {add_last.shader_stage}]

\* the last call found an entry under the resource's name
NameExisted == add_last.called /\ add_last.resource.name \in DOMAIN add_last.before

\* every entry but the one under the last call's name is as it was
OthersUntouched ==
    \A n \in DOMAIN add_last.before :
        n # add_last.resource.name => (n \in DOMAIN bindings /\ bindings[n] = add_last.before[n])

\* C6: merging a descriptor whose name exists and which is structurally equal to the
\* existing entry leaves one entry for the name, whose stage mask is the union of the
\* existing mask and the new stage and whose other fields are unchanged.
C6_EqualMergeWidensStages ==
    (NameExisted /\ StructurallyEqual(add_last.before[add_last.resource.name], ExpectedDescriptor)) =>
        /\ DOMAIN bindings = DOMAIN add_last.before
        /\ bindings[add_last.resource.name] =
              [add_last.before[add_last.resource.name] EXCEPT
                  !.stages = @ \cup {add_last.shader_stage}]
        /\ OthersUntouched
        /\ add_log = <<>>

\* an equal descriptor from a stage not yet in the mask has just been merged
C6_Witness ==
    /\ NameExisted
    /\ StructurallyEqual(add_last.before[add_last.resource.name], ExpectedDescriptor)
    /\ add_last.shader_stage \notin add_last.before[add_last.resource.name].stages
    /\ Cardinality(bindings[add_last.resource.name].stages) = 2

\* C7: merging a descriptor whose name exists with a structurally different descriptor
\* logs a conflict and keeps the first-seen descriptor: the entry, its stage mask
\* included, is unchanged and no entry is added.
C7_ConflictKeepsFirst ==
    (NameExisted /\ ~StructurallyEqual(add_last.before[add_last.resource.name], ExpectedDescriptor)) =>
        /\ bindings = add_last.before
        /\ Len(add_log) = 1
        /\ add_log[1].level = "error"
        /\ add_log[1].name = add_last.resource.name

\* a descriptor differing only in the unbounded flag, from another stage, has just
\* been rejected
C7_Witness ==
    /\ NameExisted
    /\ ~StructurallyEqual(add_last.before[add_last.resource.name], ExpectedDescriptor)
    /\ add_last.before[add_last.resource.name].set = ExpectedDescriptor.set
    /\ add_last.before[add_last.resource.name].binding = ExpectedDescriptor.binding
    /\ add_last.before[add_last.resource.name].type = ExpectedDescriptor.type
    /\ add_last.before[add_last.resource.name].count = ExpectedDescriptor.count
    /\ add_last.shader_stage \notin add_last.before[add_last.resource.name].stages
    /\ bindings = add_last.before

\* C10: the descriptor built for a resource has count 1 and unbounded = false when the
\* type has no array dimension, and count = the first array dimension with
\* unbounded = true when it has one; set and binding come from the decorations, the
\* kind from the category, and the stage mask is the single stage being processed.
C10_DescriptorFields ==
    add_last.called =>
        /\ new_binding(add_last.shader_stage, add_last.resource, add_last.type) = ExpectedDescriptor
        /\ add_last.resource.name \notin DOMAIN add_last.before =>
              bindings[add_last.resource.name] = ExpectedDescriptor

\* a resource whose type is an array of arrays, first dimension 4, has just been inserted
C10_Witness ==
    /\ add_last.called
    /\ add_last.resource.name \notin DOMAIN add_last.before
    /\ add_last.resource.array = <<4, 2>>
    /\ bindings[add_last.resource.name].count = 4
    /\ bindings[add_last.resource.name].is_unbounded

----------------------------------------------------------------------------
(* Properties of the Format Mapper, checked under SpecFormat *)

\* C8: every base type other than 32-bit float and 32-bit unsigned integer maps to
\* Invalid, for every vector size.
C8_OtherTypesInvalid ==
    (format.has_value /\ spirv_type.basetype \notin {"Float", "UInt"}) =>
        format.value = "Invalid"

\* C9: a 32-bit float of vector size 2, 3, 4 maps to Float2, Float3, Float4, a 32-bit
\* float of any other vector size to Invalid, and every input maps to one format.
C9_FloatFormats ==
    format.has_value =>
        /\ format.value \in VertexFieldFormats
        /\ spirv_type.basetype = "Float" =>
              format.value = CASE spirv_type.vecsize = 2 -> "Float2"
                               [] spirv_type.vecsize = 3 -> "Float3"
                               [] spirv_type.vecsize = 4 -> "Float4"
                               [] OTHER -> "Invalid"

\* a scalar float has just been mapped to Invalid
C9_Witness ==
    /\ format = Some("Invalid")
    /\ spirv_type = [basetype |-> "Float", vecsize |-> 1]
    /\ format_log # <<>>

----------------------------------------------------------------------------
(* Properties of the Vertex Field Extractor, checked under SpecFields *)

\* C11: get_vertex_fields returns exactly one field per stage input, in declaration
\* order: the i-th field has the i-th input's name and the format to_rhi_vertex_format
\* gives for its type; an input whose format is Invalid is still in the list
C11_FieldsFollowInputs ==
    fields.has_value =>
        LET inputs == fields_shader.source.stage_inputs
        IN  /\ Len(fields.value) = Len(inputs)
            /\ \A i \in 1..Len(inputs) :
                    /\ fields.value[i].name = inputs[i].name
                    /\ fields.value[i].format = to_rhi_vertex_format(inputs[i].type)

\* three inputs were extracted, the middle one a float scalar kept as an Invalid field
\* between two valid ones
C11_Witness ==
    /\ fields.has_value
    /\ Len(fields.value) = 3
    /\ fields_shader.source.stage_inputs[2].type = Float(1)
    /\ fields.value[2].format = "Invalid"
    /\ fields.value[1] = [name |-> "position", format |-> "Float4"]
    /\ fields.value[3] = [name |-> "uv", format |-> "Float2"]

----------------------------------------------------------------------------
(* Properties of the Pipeline Interface Builder, checked under SpecInterface *)

\* the structural fields of a descriptor: every field but the stage mask
ShapeOf(d) ==
    [set |-> d.set, binding |-> d.binding, type |-> d.type, count |-> d.count,
     is_unbounded |-> d.is_unbounded]

\* the shape the data model gives a reflected resource of one category
DeclaredShape(resource, type) ==
    [set |-> resource.set, binding |-> resource.binding, type |-> type,
     count |-> IF Len(resource.array) = 0 THEN 1 ELSE resource.array[1],
     is_unbounded |-> Len(resource.array) > 0]

ShapesIn(resources, type, name) ==
    {DeclaredShape(resources[i], type) : i \in {j \in DOMAIN resources : resources[j].name = name}}

\* the shapes under which one shader's reflection declares a name
DeclaredShapes(spirv, name) ==
    ShapesIn(spirv.separate_images, "Texture", name)
        \cup ShapesIn(spirv.separate_samplers, "Sampler", name)
        \cup ShapesIn(spirv.sampled_images, "CombinedImageSampler", name)
        \cup ShapesIn(spirv.uniform_buffers, "UniformBuffer", name)
        \cup ShapesIn(spirv.storage_buffers, "StorageBuffer", name)

NamesIn(resources) == {resources[i].name : i \in DOMAIN resources}

\* the names one shader's reflection declares
DeclaredNames(spirv) ==
    NamesIn(spirv.separate_images) \cup NamesIn(spirv.separate_samplers)
        \cup NamesIn(spirv.sampled_images) \cup NamesIn(spirv.uniform_buffers)
        \cup NamesIn(spirv.storage_buffers)

\* the positions in ShaderStages of the stages a create-info has a shader for
PresentStages(create_info) ==
    {i \in DOMAIN ShaderStages : stage_shaders(create_info)[i].has_value}

\* the present stages that declare a name, and the first of them in processing order
DeclaringStages(create_info, name) ==
    {i \in PresentStages(create_info) :
        name \in DeclaredNames(stage_shaders(create_info)[i].value.source)}

FirstDeclaringStage(create_info, name) ==
    CHOOSE i \in DeclaringStages(create_info, name) :
        \A j \in DeclaringStages(create_info, name) : i <= j

StageShapes(create_info, i, name) ==
    DeclaredShapes(stage_shaders(create_info)[i].value.source, name)

AllDeclaredNames(create_info) ==
    UNION {DeclaredNames(stage_shaders(create_info)[i].value.source) :
              i \in PresentStages(create_info)}

\* two present stages declare the name with structurally different descriptors
ConflictingName(create_info, name) ==
    \E i, j \in DeclaringStages(create_info, name) :
        StageShapes(create_info, i, name) # StageShapes(create_info, j, name)

\* the table holds, for every declared name, the shape of its first declaration
HoldsFirstDeclarations(table, create_info) ==
    /\ DOMAIN table = AllDeclaredNames(create_info)
    /\ \A n \in DOMAIN table :
          ShapeOf(table[n]) \in StageShapes(create_info, FirstDeclaringStage(create_info, n), n)

\* the present stages in processing order
PresentInOrder(create_info) ==
    SelectSeq([i \in DOMAIN ShaderStages |-> i], LAMBDA i : i \in PresentStages(create_info))

\* C12: create_pipeline_interface runs get_shader_module_descriptors for the vertex
\* stage first, then tessellation-control, tessellation-evaluation, geometry and
\* fragment, skipping exactly the absent stages, and calls the device's
\* create_pipeline_interface once, after all of them; the table the device is handed
\* holds for every name the descriptor of the earliest stage that declares it.
C12_StagesInOrderThenDevice ==
    interface_result.has_value =>
        LET calls == interface_result.value.calls
            present == PresentInOrder(interface_info)
            device == Len(present) + 1
        IN  /\ Len(calls) >= device
            /\ present[1] = 1
            /\ \A k \in 1..Len(present) :
                  /\ calls[k].fn = "get_shader_module_descriptors"
                  /\ calls[k].arg = ShaderStages[present[k]]
            /\ CallsOf(calls, "get_shader_module_descriptors") = 1..Len(present)
            /\ CallsOf(calls, "device.create_pipeline_interface") = {device}
            /\ HoldsFirstDeclarations(calls[device].arg.bindings, interface_info)

\* the interface was built from a vertex shader with the camera buffer at binding 0 and
\* a fragment shader with it at binding 1, the geometry stage absent and the
\* tessellation-control stage present: the device was handed the vertex stage's camera
C12_Witness ==
    /\ interface_result.has_value
    /\ ~interface_info.geometry_shader.has_value
    /\ interface_info.tessellation_control_shader.has_value
    /\ interface_info.fragment_shader.has_value
    /\ interface_info.vertex_shader.source.uniform_buffers = <<CameraUBO>>
    /\ interface_info.fragment_shader.value.source.uniform_buffers =
          <<[CameraUBO EXCEPT !.binding = 1]>>
    /\ \E i \in CallsOf(interface_result.value.calls, "device.create_pipeline_interface") :
          /\ interface_result.value.calls[i].arg.bindings["camera"].binding = 0
          /\ "Vertex" \in interface_result.value.calls[i].arg.bindings["camera"].stages

----------------------------------------------------------------------------
(* Properties of the Pipeline Storage and its interface builder, checked under Spec *)

\* the stages of the create-info declare some name with two different descriptors
HasConflict(create_info) ==
    \E n \in AllDeclaredNames(create_info) : ConflictingName(create_info, n)

\* C13: a binding-name conflict does not end the build: a create_pipeline whose pass is
\* registered and whose stages declare one name with different descriptors still calls
\* the device's create_pipeline_interface, with the table holding the first-seen
\* descriptor of every name, and when both device steps succeed it returns true and
\* caches the pipeline and its metadata.
C13_ConflictDoesNotEndBuild ==
    (/\ LastBuild
     /\ last.create_info.pass \in DOMAIN renderpass_metadatas
     /\ HasConflict(last.create_info)) =>
        LET c == last.calls
            interface == CallsOf(c, "device.create_pipeline_interface")
            pipeline == CallsOf(c, "device.create_pipeline")
        IN  /\ Cardinality(interface) = 1
            /\ \A i \in interface : HoldsFirstDeclarations(c[i].arg.bindings, last.create_info)
            /\ (\A i \in interface : c[i].ok) => pipeline # {}
            /\ (\A i \in interface \cup pipeline : c[i].ok) =>
                  /\ last.ret
                  /\ get_pipeline(last.create_info.name) =
                        Some([pipeline |-> Len(device_pipelines),
                              pipeline_interface |-> Len(device_interfaces)])
                  /\ pipeline_metadatas[last.create_info.name] = [data |-> last.create_info]

\* a build whose vertex and geometry stages declare the camera buffer at different
\* bindings logged the conflict, returned true and is cached with the vertex stage's
\* descriptor
C13_Witness ==
    /\ LastBuild
    /\ last.ret
    /\ ConflictingName(last.create_info, "camera")
    /\ \E k \in DOMAIN last.log : last.log[k].msg = "two different uniforms"
    /\ get_pipeline(last.create_info.name).has_value
    /\ device_interfaces[pipelines[last.create_info.name].pipeline_interface].bindings["camera"].binding
          = CameraUBO.binding
    /\ "Geometry" \notin
          device_interfaces[pipelines[last.create_info.name].pipeline_interface].bindings["camera"].stages

----------------------------------------------------------------------------
(* Properties of the interface builder's return, checked under SpecInterface *)

\* C14: create_pipeline_interface extracts the vertex fields and attaches them to the
\* interface only when the device's create_pipeline_interface succeeded, after that call
\* and before returning; when the device call fails its error is the result, the vertex
\* fields are not extracted and the result carries no interface.
C14_FieldsAttachedOnlyOnSuccess ==
    interface_result.has_value =>
        LET r == interface_result.value
            device == CallsOf(r.calls, "device.create_pipeline_interface")
            extraction == CallsOf(r.calls, "get_vertex_fields")
        IN  /\ device # {}
            /\ r.ok <=> \A i \in device : r.calls[i].ok
            /\ r.ok =>
                  /\ r.value.vertex_fields = get_vertex_fields(interface_info.vertex_shader)
                  /\ extraction = {Len(r.calls)}
                  /\ \A i \in device : i < Len(r.calls)
            /\ ~r.ok =>
                  /\ extraction = {}
                  /\ "value" \notin DOMAIN r
                  /\ r.error = "device.create_pipeline_interface failed"
                  /\ device = {Len(r.calls)}
                  /\ r.log = interface_acc.log

\* the device refused the interface of a create-info with a fragment shader: the result
\* is the error and the device call was the last call made
C14_Witness ==
    /\ interface_result.has_value
    /\ ~interface_device_ok
    /\ interface_info.fragment_shader.has_value
    /\ ~interface_result.value.ok
    /\ interface_result.value.calls[Len(interface_result.value.calls)].fn =
          "device.create_pipeline_interface"

----------------------------------------------------------------------------
(* Invariant of the two maps of the Pipeline Storage, checked under Spec *)

\* both maps have the same names, and each stored pipeline is the device pipeline of a
\* build of that name whose create-info is the stored metadata and whose interface is
\* the one that build handed to the device, built from that create-info
MapsAgree ==
    /\ DOMAIN pipelines = DOMAIN pipeline_metadatas
    /\ \A n \in DOMAIN pipelines :
          /\ pipelines[n].pipeline \in DOMAIN device_pipelines
          /\ device_pipelines[pipelines[n].pipeline].create_info = pipeline_metadatas[n].data
          /\ pipeline_metadatas[n].data.name = n
          /\ pipelines[n].pipeline_interface =
                device_pipelines[pipelines[n].pipeline].pipeline_interface
          /\ pipelines[n].pipeline_interface \in DOMAIN device_interfaces
          /\ device_interfaces[pipelines[n].pipeline_interface].vertex_fields =
                get_vertex_fields(pipeline_metadatas[n].data.vertex_shader)
          /\ HoldsFirstDeclarations(device_interfaces[pipelines[n].pipeline_interface].bindings,
                                    pipeline_metadatas[n].data)

\* a create_pipeline that returns true allocates one interface and one pipeline and
\* leaves under its name either that pair with its own create-info or, untouched, what
\* was there; every other entry, and both maps in any other step, stay as they were
BuildStoresItsOwn ==
    IF builds' = builds + 1 /\ last'.ret
    THEN /\ Len(device_pipelines') = Len(device_pipelines) + 1
         /\ Len(device_interfaces') = Len(device_interfaces) + 1
         /\ \/ /\ pipelines'[last'.create_info.name] =
                     [pipeline |-> Len(device_pipelines'),
                      pipeline_interface |-> Len(device_interfaces')]
               /\ pipeline_metadatas'[last'.create_info.name] = [data |-> last'.create_info]
            \/ /\ last'.create_info.name \in DOMAIN pipelines
               /\ pipelines'[last'.create_info.name] = pipelines[last'.create_info.name]
               /\ pipeline_metadatas'[last'.create_info.name] =
                     pipeline_metadatas[last'.create_info.name]
         /\ \A n \in DOMAIN pipelines \ {last'.create_info.name} :
               /\ pipelines'[n] = pipelines[n]
               /\ pipeline_metadatas'[n] = pipeline_metadatas[n]
    ELSE /\ pipelines' = pipelines
         /\ pipeline_metadatas' = pipeline_metadatas

\* C15: in every reachable state the pipeline map and the metadata map have the same
\* names, and for each name the stored metadata is the create-info of the build that
\* produced the stored pipeline, whose interface is the one created in that same build.
C15_MapsAgree == []MapsAgree /\ [][BuildStoresItsOwn]_vars

\* after a failed build and a rebuild of a cached name with other shaders, two names are
\* cached and three interfaces were allocated for two pipelines
C15_Witness ==
    /\ Cardinality(DOMAIN pipelines) = 2
    /\ Len(device_interfaces) > Len(device_pipelines)
    /\ LastBuild
    /\ last.ret
    /\ pipelines[last.create_info.name].pipeline_interface = Len(device_interfaces)
    /\ \E n \in DOMAIN pipelines :
          pipelines[n].pipeline_interface # pipelines[n].pipeline

----------------------------------------------------------------------------
(* Stage masks while one pipeline's table is accumulated, checked under SpecInterface *)

\* the present stages whose `get_shader_module_descriptors` statement has been passed
ProcessedStages == {i \in PresentStages(interface_info) : i <= interface_stage}

ProcessedDeclaring(name) == ProcessedStages \cap DeclaringStages(interface_info, name)

\* the processed stages that declare the name with the shape of its first declaration
ProcessedAgreeing(name) ==
    {i \in ProcessedDeclaring(name) :
        StageShapes(interface_info, i, name) =
            StageShapes(interface_info, FirstDeclaringStage(interface_info, name), name)}

\* after any number of stages the table has the names declared so far, and each mask is
\* the first declaring stage with the later stages that declared an equal descriptor
MasksAreAgreeingStages ==
    /\ DOMAIN interface_acc.bindings =
          {n \in AllDeclaredNames(interface_info) : ProcessedDeclaring(n) # {}}
    /\ \A n \in DOMAIN interface_acc.bindings :
          /\ ShaderStages[FirstDeclaringStage(interface_info, n)] \in interface_acc.bindings[n].stages
          /\ interface_acc.bindings[n].stages = {ShaderStages[i] : i \in ProcessedAgreeing(n)}
    /\ interface_result.has_value =>
          \A i \in CallsOf(interface_result.value.calls, "device.create_pipeline_interface") :
              interface_result.value.calls[i].arg.bindings = interface_acc.bindings

\* no step removes an entry or a stage from a mask
MasksOnlyGrow ==
    \A n \in DOMAIN interface_acc.bindings :
        /\ n \in DOMAIN interface_acc'.bindings
        /\ interface_acc.bindings[n].stages \subseteq interface_acc'.bindings[n].stages

\* C16: while one pipeline's binding table is accumulated every entry's stage mask only
\* grows and always contains the stage that first declared the name; after the last
\* stage it is that stage together with exactly the later stages that declared the name
\* with a structurally equal descriptor, and it never holds a stage that did not declare
\* the name or declared it with a conflicting shape.
C16_StageMasks == []MasksAreAgreeingStages /\ [][MasksOnlyGrow]_vars

\* all five stages are present and processed; the camera buffer was declared by the
\* vertex stage, again equal by the fragment stage, and at another binding by the
\* geometry stage: its mask is vertex and fragment
C16_Witness ==
    /\ interface_stage = Len(ShaderStages)
    /\ PresentStages(interface_info) = DOMAIN ShaderStages
    /\ interface_info.geometry_shader.value.source.uniform_buffers =
          <<[CameraUBO EXCEPT !.binding = 1]>>
    /\ "camera" \in DOMAIN interface_acc.bindings
    /\ interface_acc.bindings["camera"].binding = CameraUBO.binding
    /\ interface_acc.bindings["camera"].type = "UniformBuffer"
    /\ interface_acc.bindings["camera"].stages = {"Vertex", "Fragment"}

----------------------------------------------------------------------------
(* Order of merging, checked under SpecBindings *)

\* the declarations a merge can be given: stage, reflected resource, descriptor type
Declarations ==
    {[shader_stage |-> st, resource |-> Resource(n, sh), type |-> sh.type] :
        st \in ShaderStage, n \in ResourceNames, sh \in Shapes}

\* the last declaration merged
LastDeclaration ==
    [shader_stage |-> add_last.shader_stage, resource |-> add_last.resource,
     type |-> add_last.type]

Merge(b, d) == add_resource_to_bindings(b, d.shader_stage, d.resource, d.type)

\* the declaration has the shape of the table's entry of its name, if there is one
AgreesWithTable(b, d) ==
    d.resource.name \in DOMAIN b =>
        ShapeOf(b[d.resource.name]) = DeclaredShape(d.resource, d.type)

\* two declarations of one name with structurally different descriptors
Conflicting(d, e) ==
    /\ d.resource.name = e.resource.name
    /\ DeclaredShape(d.resource, d.type) # DeclaredShape(e.resource, e.type)

\* no two descriptors sharing a name, among the table's and the two declarations',
\* are structurally different
ConflictFree(b, d, e) ==
    /\ AgreesWithTable(b, d)
    /\ AgreesWithTable(b, e)
    /\ ~Conflicting(d, e)

\* C17: on conflict-free input insert-or-merge is commutative and idempotent: merging
\* the last declaration and any other one into the table gives the same table in either
\* order, and merging the last declaration a second time changes nothing; two
\* conflicting declarations of a name the table does not hold yet give different tables
\* in the two orders.
C17_MergeOrder ==
    add_last.called =>
        /\ \A e \in Declarations :
              ConflictFree(add_last.before, LastDeclaration, e) =>
                  Merge(bindings, e) = Merge(Merge(add_last.before, e), LastDeclaration)
        /\ AgreesWithTable(add_last.before, LastDeclaration) =>
              Merge(bindings, LastDeclaration) = bindings
        /\ \A e \in Declarations :
              (/\ Conflicting(LastDeclaration, e)
               /\ e.resource.name \notin DOMAIN add_last.before) =>
                  Merge(bindings, e) # Merge(Merge(add_last.before, e), LastDeclaration)

\* the second merge into a table was of a declaration equal to the entry of its name
\* and from another stage: the mask grew, merging it again changes nothing, and a third
\* equal declaration from yet another stage gives one table in either order
C17_Witness ==
    /\ NameExisted
    /\ AgreesWithTable(add_last.before, LastDeclaration)
    /\ add_last.shader_stage \notin add_last.before[add_last.resource.name].stages
    /\ Cardinality(bindings[add_last.resource.name].stages) = 2
    /\ Merge(bindings, LastDeclaration) = bindings
    /\ \E e \in Declarations :
          /\ ConflictFree(add_last.before, LastDeclaration, e)
          /\ e.resource.name = add_last.resource.name
          /\ Cardinality(Merge(bindings, e)[e.resource.name].stages) = 3
          /\ Merge(bindings, e) = Merge(Merge(add_last.before, e), LastDeclaration)

----------------------------------------------------------------------------
(* Unsigned integers in the Format Mapper, checked under SpecFormat *)

\* C18: to_rhi_vertex_format returns Uint for the 32-bit unsigned integer base type
\* whatever the vector size (a uint vector of size 2, 3 or 4 like a scalar), and logs
\* nothing for it.
C18_UIntAnySize ==
    (format.has_value /\ spirv_type.basetype = "UInt") =>
        /\ format.value = "Uint"
        /\ format_log = <<>>

\* a uint vector of three components has just been mapped to Uint, silently
C18_Witness ==
    /\ spirv_type = [basetype |-> "UInt", vecsize |-> 3]
    /\ format = Some("Uint")
    /\ format_log = <<>>

====
